---- MODULE Spec2Model ----
(***************************************************************************)
(* Task API of src/index.js: signup/login with JWT, the auth middleware,   *)
(* per-owner task CRUD on the Mongo store and the node-cache read-through  *)
(* cache of GET /tasks.  Every handler is split at its await points, so    *)
(* handlers of different requests interleave as they do on the event loop. *)
(* Time is in milliseconds (Date.now()).                                   *)
(***************************************************************************)
EXTENDS Integers, Sequences, FiniteSets, TLC

\* ------------------------------------------------------------------ bounds
MaxInFlight == 2        \* request slots: requests in flight at once
MaxReqs == 3            \* requests started in one behaviour
MaxTasks == 1           \* task documents ever created
MaxUsers == 2           \* user documents ever created

\* ------------------------------------------------------- program constants
ExpiresIn == 3600       \* jwt.sign(..., { expiresIn: "1h" }), in seconds
StdTTL == 600           \* new NodeCache({ stdTTL: 600 }), in seconds
MinUsername == 3
MaxUsername == 30
MinPassword == 6
MinTitle == 3
SaltRounds == 10

Slots == 1..MaxInFlight
UserIds == 1..MaxUsers
TaskIds == 1..MaxTasks

\* ------------------------------------------------------------ input values
\* Strings that the validators trim or measure are sequences of characters.
Ann == <<"a", "n", "n">>
Bob == <<"b", "o", "b">>
PadAnn == <<" ", "a", "n", "n", " ">>
Al == <<"a", "l">>
Pw1 == <<"s", "e", "c", "r", "e", "t">>
Pw2 == <<"h", "u", "n", "t", "e", "r">>
PwShort == <<"p", "w">>
Abc == <<"a", "b", "c">>
PadXyz == <<" ", "x", "y", "z", " ">>
PadAb == <<" ", "a", "b", " ">>

\* A JSON body field is <<>> when absent and <<v>> when present.
UsernameInputs == {<<>>, <<Ann>>, <<Bob>>, <<PadAnn>>, <<Al>>}
PasswordInputs == {<<>>, <<Pw1>>, <<Pw2>>, <<PwShort>>}
\* title: absent, valid, too short once trimmed, empty.
CreateTitles == {<<>>, <<Abc>>, <<PadAb>>, <<<<>>>>}
\* complete: absent, JSON true, JSON false, a non-boolean.
CompleteInputs == {<<>>, <<"true">>, <<"false">>, <<"maybe">>}
\* req.params.id: 0 stands for a string that is no ObjectId ("abc").
ParamIds == 0..MaxTasks
\* The clock readings a behaviour passes through after 0.
AccountTimes == {500, 3599999, 3600000}
TaskTimes == {3600000, 4200000, 4200001}

\* ------------------------------------------------------------- validators
RECURSIVE TrimLeft(_)
TrimLeft(s) == IF s # <<>> /\ Head(s) = " " THEN TrimLeft(Tail(s)) ELSE s

RECURSIVE TrimRight(_)
TrimRight(s) ==
    IF s # <<>> /\ s[Len(s)] = " " THEN TrimRight(SubSeq(s, 1, Len(s) - 1)) ELSE s

\* express-validator .trim() sanitizer, Mongoose trim: true
Trim(s) == TrimRight(TrimLeft(s))

\* body(f).isString().notEmpty(): present and not the empty string
NotEmpty(f) == f # <<>> /\ f[1] # <<>>

\* validator.isBoolean on the stringified value
IsBoolean(v) == v \in {"true", "false", "1", "0"}

\* Mongoose Boolean cast
CastBoolean(v) == v \in {"true", "1"}

\* validateSignup: the set of fields that fail
SignupErrors(b) ==
    {f \in {"username"} :
        ~(NotEmpty(b.username) /\ Len(Trim(b.username[1])) >= MinUsername
                               /\ Len(Trim(b.username[1])) <= MaxUsername)}
    \cup {f \in {"password"} :
        ~(NotEmpty(b.password) /\ Len(b.password[1]) >= MinPassword)}

\* validateLogin
LoginErrors(b) ==
    {f \in {"username"} : ~NotEmpty(b.username)}
    \cup {f \in {"password"} : ~NotEmpty(b.password)}

TitleOk(f) == NotEmpty(f) /\ Len(Trim(f[1])) >= MinTitle
CompleteOk(f) == f = <<>> \/ IsBoolean(f[1])

\* validateTaskCreate
TaskCreateErrors(b) ==
    {f \in {"title"} : ~TitleOk(b.title)}
    \cup {f \in {"complete"} : ~CompleteOk(b.complete)}

\* validateTaskUpdate: title is optional
TaskUpdateErrors(b) ==
    {f \in {"title"} : ~(b.title = <<>> \/ TitleOk(b.title))}
    \cup {f \in {"complete"} : ~CompleteOk(b.complete)}

\* The sanitizers' effect on req.body: a present field is trimmed in place.
TrimField(f) == IF f = <<>> THEN f ELSE <<Trim(f[1])>>

\* ------------------------------------------------------ hashing and tokens
\* bcrypt.hash(password, 10) / bcrypt.compare(password, hash)
Hash(p) == [alg |-> "bcrypt", cost |-> SaltRounds, of |-> p]
Compare(p, h) == h.of = p

\* jwt.sign({ id }, JWT_SECRET, { expiresIn: "1h" }) at clock t (ms): iat and
\* exp are whole seconds (NumericDate).
Sign(id, t) ==
    [id |-> id, iat |-> t \div 1000, exp |-> (t \div 1000) + ExpiresIn, sig |-> "good"]

\* Verify with the expiry test off by one: a token still passes in the second
\* of its exp.
VerifyLate(tok, t) ==
    IF tok.sig # "good" THEN [ok |-> FALSE, id |-> 0]
    ELSE IF t \div 1000 > tok.exp THEN [ok |-> FALSE, id |-> 0]
    ELSE [ok |-> TRUE, id |-> tok.id]

\* jwt.verify(token, JWT_SECRET) at clock t (ms)
Verify(tok, t) ==
    IF tok.sig # "good" THEN [ok |-> FALSE, id |-> 0]
    ELSE IF t \div 1000 >= tok.exp THEN [ok |-> FALSE, id |-> 0]
    ELSE [ok |-> TRUE, id |-> tok.id]

NoToken == [id |-> 0, iat |-> 0, exp |-> 0, sig |-> "none"]
\* A token that was never signed with JWT_SECRET, and one that is no JWT.
ForgedTokens ==
    {[id |-> 1, iat |-> 0, exp |-> ExpiresIn, sig |-> "bad"],
     [id |-> 0, iat |-> 0, exp |-> 0, sig |-> "malformed"]}

NoHeader == [scheme |-> "none", token |-> NoToken]
BasicHeader == [scheme |-> "Basic", token |-> NoToken]
Bearer(tok) == [scheme |-> "Bearer", token |-> tok]

\* auth that decodes the token without verifying it (jwt.decode): only a
\* token that is no JWT is refused.
AuthNoVerify(hdr, t) ==
    IF hdr.scheme # "Bearer"
    THEN [ok |-> FALSE, id |-> 0, error |-> "Access denied: missing token"]
    ELSE IF hdr.token.sig = "malformed"
         THEN [ok |-> FALSE, id |-> 0, error |-> "Invalid or expired token"]
         ELSE [ok |-> TRUE, id |-> hdr.token.id, error |-> ""]

\* auth: the header gate and jwt.verify
Auth(hdr, t) ==
    IF hdr.scheme # "Bearer"
    THEN [ok |-> FALSE, id |-> 0, error |-> "Access denied: missing token"]
    ELSE IF Verify(hdr.token, t).ok
         THEN [ok |-> TRUE, id |-> Verify(hdr.token, t).id, error |-> ""]
         ELSE [ok |-> FALSE, id |-> 0, error |-> "Invalid or expired token"]

\* ------------------------------------------------------------------- state
VARIABLES
    now,        \* Date.now(), ms
    users,      \* User collection: sequence of documents, _id = position
    tasks,      \* Task collection: set of documents
    nextTask,   \* next fresh task _id
    cache,      \* node-cache: user id -> <<>> or <<[v, t]>> (value, expiry ms)
    reqs,       \* slot -> the request being handled there and its locals
    issued,     \* tokens handed to clients, each with the clock at issuance and its user
    started,    \* requests started so far
    creator,    \* history: task _id -> the user id that created it
    wrote,      \* history: owners with a completed successful write
    last,       \* history: the request answered last, with its response
    prev        \* history: the request answered before last

vars ==
    <<now, users, tasks, nextTask, cache, reqs, issued, started, creator, wrote, last, prev>>

\* --------------------------------------------------------------- responses
NoResp ==
    [status |-> 0, error |-> "", message |-> "", details |-> "", errors |-> {},
     token |-> <<>>, user |-> <<>>, task |-> <<>>, tasks |-> <<>>]

\* res.status(s).json({ error: e })
ErrorResp(s, e) == [NoResp EXCEPT !.status = s, !.error = e]
\* res.status(400).json({ errors: errors.array() })
ValidationResp(fields) == [NoResp EXCEPT !.status = 400, !.errors = fields]

NoBody ==
    [username |-> <<>>, password |-> <<>>, title |-> <<>>, complete |-> <<>>,
     userId |-> <<>>, _id |-> <<>>]

\* A request and its handler's locals.  History fields: io (what the handler
\* accessed), seen, after, had (the raw entry its cache call found under its
\* key, before cache.get's expiry handling or cache.del), at (the clock when
\* its response was sent).
Idle ==
    [kind |-> "none", pc |-> "idle", hdr |-> NoHeader, user |-> 0, id |-> 0,
     body |-> NoBody, loc |-> <<>>, err |-> "", resp |-> NoResp, io |-> {},
     after |-> FALSE, seen |-> {}, had |-> <<>>, at |-> 0]

NoPrev == [kind |-> "none", user |-> 0, id |-> 0, found |-> FALSE, resp |-> NoResp]

Free(r) == reqs[r].pc = "idle"
Busy(r) == ~Free(r)

\* ---------------------------------------------------------------- the store
\* findOne with a filter that matches every document (username undefined).
FindUserAny(us, name) == IF us # <<>> THEN <<us[1]>> ELSE <<>>

\* User.findOne({ username })
FindUser(us, name) ==
    IF \E i \in 1..Len(us) : us[i].username = name
    THEN <<us[CHOOSE i \in 1..Len(us) : us[i].username = name]>>
    ELSE <<>>

\* The unique index of userSchema.username: does an insert of name collide?
DuplicateKey(us, name) == \E i \in 1..Len(us) : us[i].username = name

\* Cast of a filter's _id to ObjectId
IsObjectId(id) == id # 0

Owned(ts, o) == {t \in ts : t.userId = o}

\* Task.find({ userId }).sort({ createdAt: -1 }): every order of the owner's
\* documents with createdAt descending (documents of equal createdAt come in
\* an order the store does not fix).
FindResults(ts, o) ==
    LET S == Owned(ts, o)
        n == Cardinality(S)
    IN  {s \in [1..n -> S] :
            /\ \A i, j \in 1..n : i # j => s[i] # s[j]
            /\ \A i, j \in 1..n : i < j => s[i].createdAt >= s[j].createdAt}

\* Task.findOne / findOneAndUpdate / findOneAndDelete filter { _id, userId }
Match(ts, id, o) == {t \in ts : t.id = id /\ t.userId = o}

\* The $set that Mongoose builds from req.body: every schema path present in
\* the body is written (title, complete, userId).
ApplyUpdate(t, b) ==
    [t EXCEPT !.title = IF b.title = <<>> THEN @ ELSE Trim(b.title[1]),
              !.complete = IF b.complete = <<>> THEN @ ELSE CastBoolean(b.complete[1]),
              !.userId = IF b.userId = <<>> THEN @ ELSE b.userId[1]]

\* An update whose body carries another _id is refused by the store
\* (the _id of a document is immutable).
ModifiesId(t, b) == b._id # <<>> /\ b._id[1] # t.id

\* ---------------------------------------------------------------- the cache
\* cache.get that never checks the expiry stamp.
CacheHitNoExpiry(c, o, t) == c[o] # <<>>

\* cache.get(key): a hit unless absent or expired (data.t < Date.now())
CacheHit(c, o, t) == c[o] # <<>> /\ ~(c[o][1].t < t)

\* cache.get deletes an entry it finds expired
CacheAfterGet(c, o, t) == IF c[o] # <<>> /\ c[o][1].t < t THEN [c EXCEPT ![o] = <<>>] ELSE c

\* cache.set with twice the TTL.
CacheSetDoubleTTL(c, o, v, t) == [c EXCEPT ![o] = <<[v |-> v, t |-> t + 2 * StdTTL * 1000]>>]

\* cache.set(key, value): expiry stdTTL seconds from now
CacheSet(c, o, v, t) == [c EXCEPT ![o] = <<[v |-> v, t |-> t + StdTTL * 1000]>>]

\* A cache.del that empties the whole cache (flushAll).
CacheFlush(c, o) == [u \in DOMAIN c |-> <<>>]

\* A cache.del that removes nothing.
CacheDelNothing(c, o) == c

\* cache.del(key)
CacheDel(c, o) == [c EXCEPT ![o] = <<>>]

\* ------------------------------------------------------------------- Init
Init ==
    /\ now = 0
    /\ users = <<>>
    /\ tasks = {}
    /\ nextTask = 1
    /\ cache = [o \in UserIds |-> <<>>]
    /\ reqs = [r \in Slots |-> Idle]
    /\ issued = {}
    /\ started = 0
    /\ creator = [i \in TaskIds |-> 0]
    /\ wrote = {}
    /\ last = Idle
    /\ prev = NoPrev


\* -------------------------------------------------------- handler plumbing
\* A request entering a slot.
Begin(kind, hdr, id, body) ==
    [Idle EXCEPT !.kind = kind, !.pc = "new", !.hdr = hdr, !.id = id, !.body = body]

\* What is remembered of an answer once the next one is sent: a successful
\* write, a refused login.
Summary(l) ==
    IF \/ l.kind \in {"create", "update", "delete"} /\ l.resp.status \in {200, 201}
       \/ l.kind = "login" /\ l.resp.errors = {} /\ l.resp.token = <<>>
    THEN [kind |-> l.kind, user |-> l.user,
          id |-> IF l.resp.task # <<>> THEN l.resp.task[1].id ELSE l.id,
          found |-> l.loc # <<>>, resp |-> l.resp]
    ELSE NoPrev

\* res.json(...): the response is sent, the handler returns, the slot is free.
Answer(r, rec, resp) ==
    /\ reqs' = [reqs EXCEPT ![r] = Idle]
    /\ last' = [rec EXCEPT !.pc = "done", !.resp = resp, !.at = now]
    /\ prev' = Summary(last)

\* The handler suspends at an await.
Await(r, rec) ==
    /\ reqs' = [reqs EXCEPT ![r] = rec]
    /\ UNCHANGED <<last, prev>>

\* Every GET /tasks in flight has now also lived through the store state ts.
Observe(rq, ts) ==
    [r \in Slots |->
        IF rq[r].kind = "list"
        THEN [rq[r] EXCEPT !.seen = @ \cup FindResults(ts, rq[r].user)]
        ELSE rq[r]]

\* A store operation of slot r ran and left the store as ts.
Ran(r, rec, ts) ==
    /\ reqs' = Observe([reqs EXCEPT ![r] = rec], ts)
    /\ UNCHANGED <<last, prev>>

\* Slots are interchangeable: a request takes the lowest free one.
CanStart(r) ==
    /\ Free(r)
    /\ \A q \in Slots : q < r => Busy(q)
    /\ started < MaxReqs

\* The Authorization headers a client can send: none, another scheme, a
\* token it was issued, a token it made up.
Headers == {NoHeader, BasicHeader} \cup {Bearer(i.tok) : i \in issued}
           \cup {Bearer(t) : t \in ForgedTokens}

\* ------------------------------------------------------------- GET /tasks
\* auth, cache.get, then either the cached answer or Task.find is issued.
ListStart(r, hdr) ==
    /\ CanStart(r)
    /\ started' = started + 1
    /\ LET a == Auth(hdr, now)
           rec == [Begin("list", hdr, 0, NoBody) EXCEPT !.user = a.id]
           got == [rec EXCEPT !.io = {"cache"}, !.after = a.id \in wrote,
                              !.seen = FindResults(tasks, a.id), !.had = cache[a.id]]
       IN  IF ~a.ok
           THEN /\ Answer(r, rec, ErrorResp(401, a.error))
                /\ cache' = cache
           ELSE IF CacheHit(cache, a.id, now)
           THEN /\ Answer(r, got, [NoResp EXCEPT !.status = 200,
                                                 !.tasks = cache[a.id][1].v])
                /\ cache' = cache
           ELSE /\ Await(r, [got EXCEPT !.pc = "ls_find"])
                /\ cache' = CacheAfterGet(cache, a.id, now)
    /\ UNCHANGED <<now, users, tasks, nextTask, issued, creator, wrote>>

\* Task.find({ userId }).sort({ createdAt: -1 }) runs in the store.
ListFind(r) ==
    /\ reqs[r].pc = "ls_find"
    /\ \E l \in FindResults(tasks, reqs[r].user) :
        Await(r, [reqs[r] EXCEPT !.pc = "ls_set", !.loc = l, !.io = @ \cup {"tasks"}])
    /\ UNCHANGED <<now, users, tasks, nextTask, cache, issued, started, creator, wrote>>

\* The continuation: cache.set(cacheKey, tasks); res.json(tasks).
ListSet(r) ==
    /\ reqs[r].pc = "ls_set"
    /\ Answer(r, reqs[r], [NoResp EXCEPT !.status = 200, !.tasks = reqs[r].loc])
    /\ cache' = CacheSet(cache, reqs[r].user, reqs[r].loc, now)
    /\ UNCHANGED <<now, users, tasks, nextTask, issued, started, creator, wrote>>

\* ------------------------------------------------------------ POST /tasks
\* new Task({ userId: req.user.id, ...req.body }): the body's userId wins.
NewTaskFromBody(id, b, owner, t) ==
    [id |-> id, title |-> Trim(b.title[1]),
     complete |-> IF b.complete = <<>> THEN FALSE ELSE CastBoolean(b.complete[1]),
     userId |-> IF b.userId = <<>> THEN owner ELSE b.userId[1], createdAt |-> t]

\* new Task({ title, complete, userId: req.user.id })
NewTask(id, b, owner, t) ==
    [id |-> id, title |-> Trim(b.title[1]),
     complete |-> IF b.complete = <<>> THEN FALSE ELSE CastBoolean(b.complete[1]),
     userId |-> owner, createdAt |-> t]

\* auth, validateTaskCreate, new Task(...), task.save() is issued.
CreateStart(r, hdr, body) ==
    /\ CanStart(r)
    /\ started' = started + 1
    /\ LET a == Auth(hdr, now)
           rec == [Begin("create", hdr, 0, body) EXCEPT !.user = a.id]
       IN  IF ~a.ok
           THEN /\ Answer(r, Begin("create", hdr, 0, NoBody), ErrorResp(401, a.error))
                /\ UNCHANGED <<nextTask, creator>>
           ELSE IF TaskCreateErrors(body) # {}
           THEN /\ Answer(r, rec, ValidationResp(TaskCreateErrors(body)))
                /\ UNCHANGED <<nextTask, creator>>
           ELSE /\ nextTask <= MaxTasks
                /\ Await(r, [rec EXCEPT !.pc = "cr_save",
                                        !.loc = <<NewTask(nextTask, body, a.id, now)>>])
                /\ nextTask' = nextTask + 1
                /\ creator' = [creator EXCEPT ![nextTask] = a.id]
    /\ UNCHANGED <<now, users, tasks, cache, issued, wrote>>

\* The insert runs in the store.
CreateSave(r) ==
    /\ reqs[r].pc = "cr_save"
    /\ tasks' = tasks \cup {reqs[r].loc[1]}
    /\ Ran(r, [reqs[r] EXCEPT !.pc = "cr_del", !.io = @ \cup {"tasks"}], tasks')
    /\ UNCHANGED <<now, users, nextTask, cache, issued, started, creator, wrote>>

\* The continuation: cache.del(key); res.status(201).json(task).
CreateDone(r) ==
    /\ reqs[r].pc = "cr_del"
    /\ Answer(r, [reqs[r] EXCEPT !.io = @ \cup {"cache"}, !.had = cache[reqs[r].user]],
              [NoResp EXCEPT !.status = 201, !.task = reqs[r].loc])
    /\ cache' = CacheDel(cache, reqs[r].user)
    /\ wrote' = wrote \cup {reqs[r].user}
    /\ UNCHANGED <<now, users, tasks, nextTask, issued, started, creator>>

\* --------------------------------------------------------- GET /tasks/:id
\* auth, then Task.findOne({ _id, userId }) is issued.
GetStart(r, hdr, id) ==
    /\ CanStart(r)
    /\ started' = started + 1
    /\ LET a == Auth(hdr, now)
           rec == [Begin("get", hdr, id, NoBody) EXCEPT !.user = a.id]
       IN  IF ~a.ok
           THEN Answer(r, rec, ErrorResp(401, a.error))
           ELSE Await(r, [rec EXCEPT !.pc = "gt_find"])
    /\ UNCHANGED <<now, users, tasks, nextTask, cache, issued, creator, wrote>>

\* The answer of GET /tasks/:id for the store state ts.
GetResponse(ts, id, owner) ==
    IF ~IsObjectId(id)
    THEN [ErrorResp(500, "Failed to fetch task") EXCEPT !.details = "CastError"]
    ELSE IF Match(ts, id, owner) = {}
    THEN [ErrorResp(404, "Task not found") EXCEPT
             !.message = "No task exists with the provided id for this user"]
    ELSE [NoResp EXCEPT !.status = 200, !.message = "Task retrieved successfully!",
                        !.task = <<CHOOSE t \in Match(ts, id, owner) : TRUE>>]

\* findOne runs in the store and the handler answers.
GetFind(r) ==
    /\ reqs[r].pc = "gt_find"
    /\ Answer(r, [reqs[r] EXCEPT !.io = @ \cup {"tasks"}],
              GetResponse(tasks, reqs[r].id, reqs[r].user))
    /\ UNCHANGED <<now, users, tasks, nextTask, cache, issued, started, creator, wrote>>

\* --------------------------------------------------------- PUT /tasks/:id
\* auth, validateTaskUpdate, then findOneAndUpdate(filter, req.body) is issued.
UpdateStart(r, hdr, id, body) ==
    /\ CanStart(r)
    /\ started' = started + 1
    /\ LET a == Auth(hdr, now)
           rec == [Begin("update", hdr, id, body) EXCEPT !.user = a.id]
       IN  IF ~a.ok
           THEN Answer(r, Begin("update", hdr, id, NoBody), ErrorResp(401, a.error))
           ELSE IF TaskUpdateErrors(body) # {}
           THEN Answer(r, rec, ValidationResp(TaskUpdateErrors(body)))
           ELSE Await(r, [rec EXCEPT !.pc = "up_exec"])
    /\ UNCHANGED <<now, users, tasks, nextTask, cache, issued, creator, wrote>>

\* The store after findOneAndUpdate({ _id: id, userId: owner }, b).
UpdatedStore(ts, id, owner, b) ==
    IF ~IsObjectId(id) \/ Match(ts, id, owner) = {} THEN ts
    ELSE LET t == CHOOSE x \in Match(ts, id, owner) : TRUE
         IN  IF ModifiesId(t, b) THEN ts
             ELSE (ts \ {t}) \cup {ApplyUpdate(t, b)}

\* What findOneAndUpdate(..., { new: true }) hands back: <<>> for null.
UpdatedDoc(ts, id, owner, b) ==
    IF ~IsObjectId(id) \/ Match(ts, id, owner) = {} THEN <<>>
    ELSE LET t == CHOOSE x \in Match(ts, id, owner) : TRUE
         IN  IF ModifiesId(t, b) THEN <<>> ELSE <<ApplyUpdate(t, b)>>

\* The error findOneAndUpdate rejects with, "" for none.
UpdateError(ts, id, owner, b) ==
    IF ~IsObjectId(id) THEN "CastError"
    ELSE IF \E t \in Match(ts, id, owner) : ModifiesId(t, b) THEN "ImmutableField"
    ELSE ""

\* findOneAndUpdate runs in the store, atomically.
UpdateExec(r) ==
    /\ reqs[r].pc = "up_exec"
    /\ tasks' = UpdatedStore(tasks, reqs[r].id, reqs[r].user, reqs[r].body)
    /\ Ran(r, [reqs[r] EXCEPT
                 !.pc = "up_del",
                 !.loc = UpdatedDoc(tasks, reqs[r].id, reqs[r].user, reqs[r].body),
                 !.err = UpdateError(tasks, reqs[r].id, reqs[r].user, reqs[r].body),
                 !.io = @ \cup {"tasks"}], tasks')
    /\ UNCHANGED <<now, users, nextTask, cache, issued, started, creator, wrote>>

\* The continuation: 500 from the catch, 404 on null, else cache.del and 200.
UpdateDone(r) ==
    /\ reqs[r].pc = "up_del"
    /\ IF reqs[r].err # ""
       THEN /\ Answer(r, reqs[r], ErrorResp(500, "Internal server error"))
            /\ UNCHANGED <<cache, wrote>>
       ELSE IF reqs[r].loc = <<>>
       THEN /\ Answer(r, reqs[r], ErrorResp(404, "Task not found"))
            /\ UNCHANGED <<cache, wrote>>
       ELSE /\ Answer(r, [reqs[r] EXCEPT !.io = @ \cup {"cache"},
                                         !.had = cache[reqs[r].user]],
                      [NoResp EXCEPT !.status = 200, !.task = reqs[r].loc])
            /\ cache' = CacheDel(cache, reqs[r].user)
            /\ wrote' = wrote \cup {reqs[r].user}
    /\ UNCHANGED <<now, users, tasks, nextTask, issued, started, creator>>

\* ------------------------------------------------------ DELETE /tasks/:id
\* auth, then findOneAndDelete({ _id, userId }) is issued.
DeleteStart(r, hdr, id) ==
    /\ CanStart(r)
    /\ started' = started + 1
    /\ LET a == Auth(hdr, now)
           rec == [Begin("delete", hdr, id, NoBody) EXCEPT !.user = a.id]
       IN  IF ~a.ok
           THEN Answer(r, rec, ErrorResp(401, a.error))
           ELSE Await(r, [rec EXCEPT !.pc = "dl_exec"])
    /\ UNCHANGED <<now, users, tasks, nextTask, cache, issued, creator, wrote>>

\* The document findOneAndDelete removes and hands back: <<>> for null.
DeletedDoc(ts, id, owner) ==
    IF ~IsObjectId(id) \/ Match(ts, id, owner) = {} THEN <<>>
    ELSE <<CHOOSE t \in Match(ts, id, owner) : TRUE>>

\* A find without the delete (findOne): the document is handed back and stays
\* in the store.
DeleteExecKeeps(r) ==
    /\ reqs[r].pc = "dl_exec"
    /\ LET d == DeletedDoc(tasks, reqs[r].id, reqs[r].user)
       IN  /\ tasks' = tasks
           /\ Ran(r, [reqs[r] EXCEPT
                        !.pc = "dl_del", !.loc = d,
                        !.err = IF IsObjectId(reqs[r].id) THEN "" ELSE "CastError",
                        !.io = @ \cup {"tasks"}], tasks')
    /\ UNCHANGED <<now, users, nextTask, cache, issued, started, creator, wrote>>

\* findOneAndDelete runs in the store, atomically.
DeleteExec(r) ==
    /\ reqs[r].pc = "dl_exec"
    /\ LET d == DeletedDoc(tasks, reqs[r].id, reqs[r].user)
       IN  /\ tasks' = IF d = <<>> THEN tasks ELSE tasks \ {d[1]}
           /\ Ran(r, [reqs[r] EXCEPT
                        !.pc = "dl_del", !.loc = d,
                        !.err = IF IsObjectId(reqs[r].id) THEN "" ELSE "CastError",
                        !.io = @ \cup {"tasks"}], tasks')
    /\ UNCHANGED <<now, users, nextTask, cache, issued, started, creator, wrote>>

\* The continuation: 500 from the catch, 404 on null, else cache.del and 200.
DeleteDone(r) ==
    /\ reqs[r].pc = "dl_del"
    /\ IF reqs[r].err # ""
       THEN /\ Answer(r, reqs[r], ErrorResp(500, "Internal server error"))
            /\ UNCHANGED <<cache, wrote>>
       ELSE IF reqs[r].loc = <<>>
       THEN /\ Answer(r, reqs[r], ErrorResp(404, "Task not found"))
            /\ UNCHANGED <<cache, wrote>>
       ELSE /\ Answer(r, [reqs[r] EXCEPT !.io = @ \cup {"cache"},
                                         !.had = cache[reqs[r].user]],
                      [NoResp EXCEPT !.status = 200, !.message = "Task deleted"])
            /\ cache' = CacheDel(cache, reqs[r].user)
            /\ wrote' = wrote \cup {reqs[r].user}
    /\ UNCHANGED <<now, users, tasks, nextTask, issued, started, creator>>

\* ----------------------------------------------------------- POST /signup
\* validateSignup (username trimmed in place), then User.findOne is issued.
SignupStart(r, body) ==
    /\ CanStart(r)
    /\ started' = started + 1
    /\ LET rec == Begin("signup", NoHeader, 0,
                        [body EXCEPT !.username = TrimField(body.username)])
       IN  IF SignupErrors(body) # {}
           THEN Answer(r, rec, ValidationResp(SignupErrors(body)))
           ELSE Await(r, [rec EXCEPT !.pc = "su_find"])
    /\ UNCHANGED <<now, users, tasks, nextTask, cache, issued, creator, wrote>>

\* findOne runs in the store; the continuation answers 400 on a hit, else
\* hashes the password, builds the User and issues user.save().
SignupFind(r) ==
    /\ reqs[r].pc = "su_find"
    /\ LET existingUser == FindUser(users, reqs[r].body.username[1])
           rec == [reqs[r] EXCEPT !.io = @ \cup {"users"}]
       IN  IF existingUser # <<>>
           THEN Answer(r, rec, ErrorResp(400, "Username already exists"))
           ELSE Await(r, [rec EXCEPT
                            !.pc = "su_save",
                            !.loc = <<[username |-> Trim(rec.body.username[1]),
                                       password |-> Hash(rec.body.password[1])]>>])
    /\ UNCHANGED <<now, users, tasks, nextTask, cache, issued, started, creator, wrote>>

\* The collection after the insert of doc: unchanged on a duplicate key
\* (E11000, the unique index on username).
SavedUsers(us, doc) ==
    IF DuplicateKey(us, doc.username) THEN us
    ELSE Append(us, [id |-> Len(us) + 1, username |-> doc.username,
                     password |-> doc.password])

\* The insert runs in the store; the continuation signs the token and
\* answers 201, or the catch answers 500.
SignupSave(r) ==
    /\ reqs[r].pc = "su_save"
    /\ DuplicateKey(users, reqs[r].loc[1].username) \/ Len(users) < MaxUsers
    /\ users' = SavedUsers(users, reqs[r].loc[1])
    /\ IF users' = users
       THEN /\ Answer(r, reqs[r], ErrorResp(500, "Failed to create user"))
            /\ issued' = issued
       ELSE LET user == users'[Len(users')]
            IN  /\ Answer(r, [reqs[r] EXCEPT !.loc = <<user>>],
                          [NoResp EXCEPT !.status = 201,
                                         !.message = "User created successfully",
                                         !.token = <<Sign(user.id, now)>>,
                                         !.user = <<[id |-> user.id,
                                                     username |-> user.username]>>])
                /\ issued' = issued \cup {[tok |-> Sign(user.id, now), at |-> now, sub |-> user.id]}
    /\ UNCHANGED <<now, tasks, nextTask, cache, started, creator, wrote>>

\* ------------------------------------------------------------ POST /login
\* validateLogin, then User.findOne is issued.
LoginStart(r, body) ==
    /\ CanStart(r)
    /\ started' = started + 1
    /\ LET rec == Begin("login", NoHeader, 0, body)
       IN  IF LoginErrors(body) # {}
           THEN Answer(r, rec, ValidationResp(LoginErrors(body)))
           ELSE Await(r, [rec EXCEPT !.pc = "li_find"])
    /\ UNCHANGED <<now, users, tasks, nextTask, cache, issued, creator, wrote>>

\* A login that tells the caller the username is unknown.
UserNotFoundResp == ErrorResp(404, "User not found")

\* if (!user) return res.status(401).json({ error: "Invalid credentials" })
UnknownUserResp == ErrorResp(401, "Invalid credentials")

\* if (!ok) return res.status(401).json({ error: "Invalid credentials" })
WrongPasswordResp == ErrorResp(401, "Invalid credentials")

\* findOne runs in the store; the continuation answers 401 on a miss, else
\* issues bcrypt.compare.
LoginFind(r) ==
    /\ reqs[r].pc = "li_find"
    /\ LET user == FindUser(users, reqs[r].body.username[1])
           rec == [reqs[r] EXCEPT !.io = @ \cup {"users"}]
       IN  IF user = <<>>
           THEN Answer(r, rec, UnknownUserResp)
           ELSE Await(r, [rec EXCEPT !.pc = "li_cmp", !.loc = user])
    /\ UNCHANGED <<now, users, tasks, nextTask, cache, issued, started, creator, wrote>>

\* bcrypt.compare resolves; the continuation answers 401 or signs a token.
LoginCompare(r) ==
    /\ reqs[r].pc = "li_cmp"
    /\ IF ~Compare(reqs[r].body.password[1], reqs[r].loc[1].password)
       THEN /\ Answer(r, reqs[r], WrongPasswordResp)
            /\ issued' = issued
       ELSE /\ Answer(r, reqs[r], [NoResp EXCEPT !.status = 200,
                                      !.token = <<Sign(reqs[r].loc[1].id, now)>>])
            /\ issued' = issued \cup {[tok |-> Sign(reqs[r].loc[1].id, now), at |-> now,
                                        sub |-> reqs[r].loc[1].id]}
    /\ UNCHANGED <<now, users, tasks, nextTask, cache, started, creator, wrote>>

\* ------------------------------------------------------------------ clock
Tick(t) ==
    /\ t > now
    /\ now' = t
    /\ UNCHANGED <<users, tasks, nextTask, cache, reqs, issued, started, creator, wrote,
                   last, prev>>

\* ------------------------------------------------------------ request bodies
AccountBodies ==
    {[NoBody EXCEPT !.username = u, !.password = p] :
        u \in UsernameInputs, p \in PasswordInputs}
CreateBodies ==
    {[NoBody EXCEPT !.title = t, !.complete = c] :
        t \in CreateTitles, c \in CompleteInputs \ {<<"false">>}}
\* PUT bodies: a patch of the title, a patch of complete, bad patches, and
\* bodies that carry the schema path userId or the path _id.
UpdateBodies ==
    {[NoBody EXCEPT !.title = <<PadXyz>>],
     [NoBody EXCEPT !.complete = <<"true">>],
     [NoBody EXCEPT !.title = <<PadAb>>],
     [NoBody EXCEPT !.title = <<<<>>>>, !.complete = <<"true">>],
     [NoBody EXCEPT !.complete = <<"maybe">>],
     [NoBody EXCEPT !.userId = <<2>>],
     [NoBody EXCEPT !._id = <<2>>]}

\* ------------------------------------------------------------------- Next
\* A request arrives.
AccountStart ==
    \/ \E r \in Slots, b \in AccountBodies : SignupStart(r, b)
    \/ \E r \in Slots, b \in AccountBodies : LoginStart(r, b)

TaskStart ==
    \/ \E r \in Slots, h \in Headers : ListStart(r, h)
    \/ \E r \in Slots, h \in Headers, b \in CreateBodies : CreateStart(r, h, b)
    \/ \E r \in Slots, h \in Headers, i \in ParamIds : GetStart(r, h, i)
    \/ \E r \in Slots, h \in Headers, i \in ParamIds, b \in UpdateBodies :
            UpdateStart(r, h, i, b)
    \/ \E r \in Slots, h \in Headers, i \in ParamIds : DeleteStart(r, h, i)

\* A store operation or a continuation of a request in flight runs.
AccountStep ==
    \/ \E r \in Slots : SignupFind(r)
    \/ \E r \in Slots : SignupSave(r)
    \/ \E r \in Slots : LoginFind(r)
    \/ \E r \in Slots : LoginCompare(r)

TaskStep ==
    \/ \E r \in Slots : ListFind(r)
    \/ \E r \in Slots : ListSet(r)
    \/ \E r \in Slots : CreateSave(r)
    \/ \E r \in Slots : CreateDone(r)
    \/ \E r \in Slots : GetFind(r)
    \/ \E r \in Slots : UpdateExec(r)
    \/ \E r \in Slots : UpdateDone(r)
    \/ \E r \in Slots : DeleteExec(r)
    \/ \E r \in Slots : DeleteDone(r)

AccountClock == \E t \in AccountTimes : Tick(t)
TaskClock == \E t \in TaskTimes : Tick(t)

Next == AccountStart \/ AccountStep \/ TaskStart \/ TaskStep \/ AccountClock \/ TaskClock

\* The whole service, from empty collections.
Spec == Init /\ [][Next]_vars

\* Signup and login alone, from empty collections.
NextAccounts == AccountStart \/ AccountStep \/ AccountClock
SpecAccounts == Init /\ [][NextAccounts]_vars

\* The task routes, from a store in which ann signed up at clock 0 and, an
\* hour later, ann logged in again and bob signed up: ann's first token has
\* just expired, the other two are fresh.
InitTasks ==
    /\ now = ExpiresIn * 1000
    /\ users = <<[id |-> 1, username |-> Ann, password |-> Hash(Pw1)],
                 [id |-> 2, username |-> Bob, password |-> Hash(Pw2)]>>
    /\ tasks = {}
    /\ nextTask = 1
    /\ cache = [o \in UserIds |-> <<>>]
    /\ reqs = [r \in Slots |-> Idle]
    /\ issued = {[tok |-> Sign(1, 0), at |-> 0, sub |-> 1],
                 [tok |-> Sign(1, now), at |-> now, sub |-> 1],
                 [tok |-> Sign(2, now), at |-> now, sub |-> 2]}
    /\ started = 0
    /\ creator = [i \in TaskIds |-> 0]
    /\ wrote = {}
    /\ last = Idle
    /\ prev = NoPrev

NextTasks == TaskStart \/ TaskStep
SpecTasks == InitTasks /\ [][NextTasks]_vars

\* The task routes with requests handled one at a time.
AllFree == \A r \in Slots : Free(r)
NextSeq == (AllFree /\ TaskStart) \/ TaskStep
SpecSeq == InitTasks /\ [][NextSeq]_vars

\* Bodies the validators let through although they are not the documented
\* {title, complete?}: complete as the string or number 1 or 0 (isBoolean
\* reads the stringified value), and a POST body carrying userId and _id.
CoercedCreateBodies ==
    {[NoBody EXCEPT !.title = <<Abc>>, !.complete = <<"1">>],
     [NoBody EXCEPT !.title = <<Abc>>, !.userId = <<2>>, !._id = <<2>>]}

CoercedUpdateBodies ==
    {[NoBody EXCEPT !.complete = <<"1">>],
     [NoBody EXCEPT !.title = <<PadXyz>>, !.complete = <<"0">>]}

BodiesStart ==
    \/ \E r \in Slots, h \in Headers, b \in CoercedCreateBodies : CreateStart(r, h, b)
    \/ \E r \in Slots, h \in Headers, i \in ParamIds, b \in CoercedUpdateBodies :
            UpdateStart(r, h, i, b)

\* The task routes, one request at a time, with these bodies as well.
NextBodies == (AllFree /\ (TaskStart \/ BodiesStart)) \/ TaskStep
SpecBodies == InitTasks /\ [][NextBodies]_vars

\* The cached routes with the clock running: list, create, update and delete
\* of task 1 by clients holding an unexpired token, requests interleaved.
OwnerHeaders == {Bearer(i.tok) : i \in {j \in issued : Verify(j.tok, now).ok}}

CacheStart ==
    \/ \E r \in Slots, h \in OwnerHeaders : ListStart(r, h)
    \/ \E r \in Slots, h \in OwnerHeaders :
            CreateStart(r, h, [NoBody EXCEPT !.title = <<Abc>>])
    \/ \E r \in Slots, h \in OwnerHeaders :
            UpdateStart(r, h, 1, [NoBody EXCEPT !.complete = <<"true">>])
    \/ \E r \in Slots, h \in OwnerHeaders : DeleteStart(r, h, 1)

CacheStep ==
    \/ \E r \in Slots : ListFind(r)
    \/ \E r \in Slots : ListSet(r)
    \/ \E r \in Slots : CreateSave(r)
    \/ \E r \in Slots : CreateDone(r)
    \/ \E r \in Slots : UpdateExec(r)
    \/ \E r \in Slots : UpdateDone(r)
    \/ \E r \in Slots : DeleteExec(r)
    \/ \E r \in Slots : DeleteDone(r)

NextCache == CacheStart \/ CacheStep \/ TaskClock
SpecCache == InitTasks /\ [][NextCache]_vars

\* ================================================================= claims
TaskKinds == {"list", "create", "get", "update", "delete"}
WriteKinds == {"create", "update", "delete"}

\* This step sends a response: a request answered on arrival, or a request
\* in flight whose slot is freed.  last' is then the request answered.
Answering ==
    \/ started' = started + 1 /\ reqs' = reqs
    \/ \E r \in Slots : Busy(r) /\ reqs'[r].pc = "idle"

\* The elements of a sequence.
Range(seq) == {seq[i] : i \in 1..Len(seq)}

\* C1: a GET /tasks of owner O that starts after a successful write of O was
\* answered returns a list the store held for O at some moment of that GET,
\* whatever other requests are in flight.
C1_ReadAfterWriteIsFresh ==
    (last.kind = "list" /\ last.resp.status = 200 /\ last.after)
        => last.resp.tasks \in last.seen

\* C2: with requests handled one at a time, the GET /tasks of owner O that
\* follows a successful create, update or delete of O contains the created
\* task, shows the updated task as the update answered it, and holds no task
\* with the deleted id.
C2_NextListReflectsWrite ==
    (/\ last.kind = "list" /\ last.resp.status = 200
     /\ prev.kind \in WriteKinds /\ prev.user = last.user)
        => /\ prev.kind \in {"create", "update"}
                => prev.resp.task[1] \in Range(last.resp.tasks)
           /\ prev.kind = "update"
                => \A t \in Range(last.resp.tasks) :
                        t.id = prev.id => t = prev.resp.task[1]
           /\ prev.kind = "delete"
                => \A t \in Range(last.resp.tasks) : t.id # prev.id

\* C3: no task route answers a caller with a task another user created, and
\* a delete succeeds only on a task its caller created.
C3_NoCrossOwnerAccess ==
    (last.kind \in TaskKinds /\ last.resp.status \in {200, 201})
        => /\ \A t \in Range(last.resp.tasks) \cup Range(last.resp.task) :
                creator[t.id] = last.user
           /\ last.kind = "delete" => creator[last.id] = last.user

\* C4: findOneAndUpdate keeps every task's id and owner, keeps the title when
\* the body has no title and complete when the body has no complete, and
\* leaves every task other than the matched one as it was.
C4_UpdateKeepsOwnerAndId ==
    [][\A r \in Slots :
          (reqs[r].pc = "up_exec" /\ reqs'[r].pc = "up_del")
            => /\ {t.id : t \in tasks'} = {t.id : t \in tasks}
               /\ \A t \in tasks : \E u \in tasks' :
                    /\ u.id = t.id
                    /\ u.userId = t.userId
                    /\ reqs[r].body.title = <<>> => u.title = t.title
                    /\ reqs[r].body.complete = <<>> => u.complete = t.complete
                    /\ t \notin Match(tasks, reqs[r].id, reqs[r].user) => u = t]_vars

\* The header passes the gate: Bearer scheme and a token that verifies now.
GoodHeader(h) == h.scheme = "Bearer" /\ Verify(h.token, now).ok

\* The 401 the gate owes a header that does not pass.
GateMessage(h) ==
    IF h.scheme # "Bearer" THEN "Access denied: missing token"
    ELSE "Invalid or expired token"

\* C5: a request to a task route goes on to its handler only with a Bearer
\* token that verifies, bound to the token's subject; any other request is
\* answered on arrival with the 401 of its case, after no access to the
\* store or the cache, and store and cache are left as they were.
C5_AuthGate ==
    [][started' = started + 1 =>
          /\ \A r \in Slots :
                (Free(r) /\ reqs'[r].pc # "idle" /\ reqs'[r].kind \in TaskKinds)
                    => /\ GoodHeader(reqs'[r].hdr)
                       /\ reqs'[r].user = reqs'[r].hdr.token.id
          /\ (reqs' = reqs /\ last'.kind \in TaskKinds /\ ~GoodHeader(last'.hdr))
                => /\ last'.resp = ErrorResp(401, GateMessage(last'.hdr))
                   /\ last'.io = {}
                   /\ last'.loc = <<>>
                   /\ UNCHANGED <<users, tasks, nextTask, cache>>]_vars

\* A PUT carrying an expired token was refused while a task is stored.
C5_Witness ==
    /\ last.kind = "update" /\ last.resp.status = 401
    /\ last.hdr.token.sig = "good"
    /\ tasks # {}

\* What verify owes a token issued at clock i.at (ms) when expiry is counted
\* in milliseconds from the issuance.
ExactHour(i, t) ==
    IF t < i.at + ExpiresIn * 1000 THEN [ok |-> TRUE, id |-> i.sub]
    ELSE [ok |-> FALSE, id |-> 0]

\* What verify owes it when iat and exp are whole seconds.
WholeSeconds(i, t) ==
    IF t \div 1000 < (i.at \div 1000) + ExpiresIn THEN [ok |-> TRUE, id |-> i.sub]
    ELSE [ok |-> FALSE, id |-> 0]

\* C6 as claimed: a token issued at clock t verifies, with its subject, at
\* every clock before t + 1 hour and at no clock from t + 1 hour on; a forged
\* or malformed token never verifies.
C6_ExpiresOneHourAfterIssue ==
    /\ \A i \in issued : Verify(i.tok, now) = ExactHour(i, now)
    /\ \A f \in ForgedTokens : ~Verify(f, now).ok

\* C6 as amended: a token issued in second s verifies, with its subject, in
\* every second before s + 3600 and in no second from s + 3600 on; a forged
\* or malformed token never verifies.
C6_ExpiresAtWholeSecond ==
    /\ \A i \in issued : Verify(i.tok, now) = WholeSeconds(i, now)
    /\ \A f \in ForgedTokens : ~Verify(f, now).ok

\* A token issued half a second into a second is refused less than an hour
\* later.
C6_Witness ==
    \E i \in issued : /\ i.at = 500
                      /\ now = ExpiresIn * 1000
                      /\ ~Verify(i.tok, now).ok

\* C7: usernames are unique in the store, and a signup that passes
\* validation is answered 201 or 400 "Username already exists".
C7_SecondSignupIsConflict ==
    /\ \A i, j \in 1..Len(users) : i # j => users[i].username # users[j].username
    /\ (last.kind = "signup" /\ last.resp.errors = {})
          => \/ last.resp.status = 201
             \/ last.resp = ErrorResp(400, "Username already exists")

\* The store holds a user with these credentials.
Registered(us, b) ==
    /\ b.username # <<>>
    /\ b.password # <<>>
    /\ \E i \in 1..Len(us) : /\ us[i].username = b.username[1]
                             /\ us[i].password.of = b.password[1]

Refused(l) == l.kind = "login" /\ l.resp.errors = {} /\ l.resp.token = <<>>

\* C9: a login refused for an unknown username and a login refused for a
\* wrong password get the same status and body.
C9_RefusalsAlike ==
    (Refused(last) /\ prev.kind = "login" /\ prev.found # (last.loc # <<>>))
        => last.resp = prev.resp

\* A wrong-password refusal follows an unknown-username refusal.
C9_Witness ==
    /\ Refused(last) /\ last.loc # <<>>
    /\ prev.kind = "login" /\ ~prev.found

\* C10: findOneAndDelete on an id that names no task of the caller changes
\* neither the store nor the cache, and the handler then answers 404
\* "Task not found", again changing nothing.
C10_DeleteMissingIsNotFound ==
    [][\A r \in Slots :
          /\ (/\ reqs[r].pc = "dl_exec" /\ reqs'[r].pc = "dl_del"
              /\ Match(tasks, reqs[r].id, reqs[r].user) = {})
                => /\ reqs'[r].loc = <<>>
                   /\ UNCHANGED <<tasks, cache>>
          /\ (reqs[r].pc = "dl_del" /\ reqs[r].loc = <<>> /\ reqs'[r].pc = "idle")
                => /\ last'.resp = ErrorResp(404, "Task not found")
                   /\ UNCHANGED <<tasks, cache>>]_vars

\* The 404 each by-id route owes an id that names no task of its caller.
NotFoundResp(kind) ==
    IF kind = "get"
    THEN [ErrorResp(404, "Task not found") EXCEPT
             !.message = "No task exists with the provided id for this user"]
    ELSE ErrorResp(404, "Task not found")

\* C11: when the id of a GET, PUT or DELETE /tasks/:id names no task owned by
\* the caller, the store operation matches nothing and changes nothing, and
\* the route answers its 404, the same whether the id names a task of
\* another owner, a task that is gone, or no task at all.
C11_ForeignIdIsNotFound ==
    [][\A r \in Slots :
          /\ (/\ reqs[r].pc = "gt_find" /\ reqs'[r].pc = "idle"
              /\ Match(tasks, reqs[r].id, reqs[r].user) = {})
                => last'.resp = NotFoundResp("get")
          /\ (/\ reqs[r].pc \in {"up_exec", "dl_exec"}
              /\ reqs'[r].pc \in {"up_del", "dl_del"}
              /\ Match(tasks, reqs[r].id, reqs[r].user) = {})
                => /\ tasks' = tasks
                   /\ reqs'[r].loc = <<>>
                   /\ reqs'[r].err = ""
          /\ (/\ reqs[r].pc \in {"up_del", "dl_del"} /\ reqs'[r].pc = "idle"
              /\ reqs[r].loc = <<>> /\ reqs[r].err = "")
                => last'.resp = NotFoundResp(reqs[r].kind)]_vars

\* The title is missing, empty, or shorter than MinTitle once trimmed.
BadTitle(f) == f = <<>> \/ f[1] = <<>> \/ Len(Trim(f[1])) < MinTitle

\* complete is given and is neither JSON true nor JSON false.
NonBoolean(f) == f # <<>> /\ f[1] \notin {"true", "false"}

\* The body is one C12 says must be refused.
MustRefuse(kind, b) ==
    \/ kind = "create" /\ BadTitle(b.title)
    \/ kind = "update" /\ ((b.title # <<>> /\ BadTitle(b.title)) \/ NonBoolean(b.complete))

\* C12: an authenticated POST /tasks whose title is missing, empty or shorter
\* than 3 once trimmed, and an authenticated PUT /tasks/:id whose body gives
\* such a title or a complete that is no boolean, is answered 400 on arrival
\* with validation errors, and store and cache are left as they were.
C12_BadInputIsRefused ==
    [][started' = started + 1 =>
          /\ \A r \in Slots :
                (Free(r) /\ reqs'[r].pc # "idle")
                    => ~MustRefuse(reqs'[r].kind, reqs'[r].body)
          /\ (/\ reqs' = reqs /\ last'.kind \in {"create", "update"}
              /\ GoodHeader(last'.hdr) /\ MustRefuse(last'.kind, last'.body))
                => /\ last'.resp.status = 400
                   /\ last'.resp.errors # {}
                   /\ UNCHANGED <<tasks, nextTask, cache>>]_vars

\* The fixed messages of the catch blocks.
GenericMessages == {"Internal server error", "Failed to create user", "Failed to fetch task"}

\* C13: a request whose store or hashing call failed is answered 500 with
\* one of the fixed messages and nothing else in the body: no detail of the
\* failure, no task, no token.
C13_FailuresAreGeneric ==
    last.resp.status = 500
        => /\ last.resp.error \in GenericMessages
           /\ last.resp = ErrorResp(500, last.resp.error)

\* The clock at which a cache entry was put, and its age now.
PutAt(e) == e.t - StdTTL * 1000
Age(e) == now - PutAt(e)

\* The GET /tasks that arrives in this step is past auth and is answered from
\* the cache / goes on to the store.
ListHit == reqs' = reqs /\ last'.kind = "list" /\ last'.resp.status = 200
ListMiss(r) == Free(r) /\ reqs'[r].kind = "list" /\ reqs'[r].pc = "ls_find"

\* GET /tasks serves the owner's entry exactly while its age is below limit
\* (ms), and every put stamps the entry with the clock of the put.
ServedWhileYoungerThan(limit) ==
    /\ (started' = started + 1 /\ ListHit)
          => /\ cache[last'.user] # <<>>
             /\ Age(cache[last'.user][1]) < limit
             /\ last'.resp.tasks = cache[last'.user][1].v
    /\ \A r \in Slots :
          /\ (started' = started + 1 /\ ListMiss(r))
                => \/ cache[reqs'[r].user] = <<>>
                   \/ Age(cache[reqs'[r].user][1]) >= limit
          /\ (reqs[r].pc = "ls_set" /\ reqs'[r].pc = "idle")
                => /\ cache'[reqs[r].user] # <<>>
                   /\ PutAt(cache'[reqs[r].user][1]) = now
                   /\ cache'[reqs[r].user][1].v = reqs[r].loc

\* C14 as claimed: the cached list is served only when it was put less than
\* 600 s earlier; from 600 s after the put on, the read is a miss; each put
\* restarts the 600 s.
C14_MissFromTTLOn == [][ServedWhileYoungerThan(StdTTL * 1000)]_vars

\* C14 as amended: the cached list is served only when it was put at most
\* 600 s earlier (still at exactly 600 000 ms); once more than 600 s have
\* passed since the put, the read is a miss; each put restarts the 600 s.
C14_MissAfterTTL == [][ServedWhileYoungerThan(StdTTL * 1000 + 1)]_vars

\* A GET /tasks was answered from an entry put exactly 600 s before.
C14_Witness ==
    /\ last.kind = "list" /\ last.resp.status = 200 /\ last.io = {"cache"}
    /\ last.at = now
    /\ last.had # <<>> /\ Age(last.had[1]) = StdTTL * 1000

\* The continuation of a write in slot r runs in this step and answers
\* success.
WriteSucceeds(r) ==
    /\ reqs[r].pc \in {"cr_del", "up_del", "dl_del"}
    /\ reqs'[r].pc = "idle"
    /\ last'.resp.status \in {200, 201}

\* C15: the step that sends the success response of a create, update or
\* delete comes after the request's store write, writes nothing to the store
\* itself, and leaves no cache entry for the writer: the state in which the
\* response is sent holds none.
C15_InvalidatedWhenAnswered ==
    [][\A r \in Slots :
          WriteSucceeds(r)
            => /\ "tasks" \in reqs[r].io
               /\ tasks' = tasks
               /\ "cache" \in last'.io
               /\ cache'[reqs[r].user] = <<>>]_vars

\* A write was answered with success and its cache.del found an entry.
C15_Witness ==
    /\ last.kind \in WriteKinds /\ last.resp.status \in {200, 201}
    /\ last.had # <<>>
    /\ cache[last.user] = <<>>

\* Slot r is the one whose handler runs in this step, and the request it
\* runs for.
Acting(r) == reqs'[r].pc # reqs[r].pc
ActingReq(r) == IF Free(r) THEN reqs'[r] ELSE reqs[r]

\* C16: whenever the cache entry of an owner changes, the step is one of a
\* request made as that owner, and the entry is there afterwards only if
\* that request is a GET /tasks: no handler touches another owner's entry
\* and no write puts an entry.
C16_OwnEntryOnly ==
    [][\A o \in UserIds :
          cache'[o] # cache[o]
            => \E r \in Slots :
                  /\ Acting(r)
                  /\ ActingReq(r).user = o
                  /\ cache'[o] # <<>> => ActingReq(r).kind = "list"]_vars

\* A write was answered with success, its cache.del removed the writer's
\* entry, and the other owner's entry is still there.
C16_Witness ==
    /\ last.kind \in WriteKinds /\ last.resp.status \in {200, 201}
    /\ last.had # <<>>
    /\ cache[last.user] = <<>>
    /\ \E o \in UserIds : o # last.user /\ cache[o] # <<>>

\* The owner's entry is in the cache and not past its expiry stamp.
Live(o) == cache[o] # <<>> /\ cache[o][1].t >= now

\* l lists exactly the tasks of owner o in the store, newest first.
IsOwnersList(l, o) ==
    /\ Range(l) = {t \in tasks : t.userId = o}
    /\ Len(l) = Cardinality({t \in tasks : t.userId = o})
    /\ \A i, j \in 1..Len(l) : i < j => l[i].createdAt >= l[j].createdAt

\* On a miss the find yields the owner's tasks in the store, newest first,
\* and the continuation answers that list and puts it under the owner.
MissFetchesAndPuts ==
    \A r \in Slots :
        /\ (reqs[r].pc = "ls_find" /\ reqs'[r].pc = "ls_set")
              => IsOwnersList(reqs'[r].loc, reqs[r].user)
        /\ (reqs[r].pc = "ls_set" /\ reqs'[r].pc = "idle")
              => /\ last'.resp.tasks = reqs[r].loc
                 /\ cache'[reqs[r].user] # <<>>
                 /\ cache'[reqs[r].user][1].v = reqs[r].loc

\* A GET /tasks that finds a live entry, an empty list included, answers it
\* without going to the store.
HitAnswersEntry ==
    started' = started + 1
        => /\ \A r \in Slots : ListMiss(r) => ~Live(reqs'[r].user)
           /\ ListHit => /\ last'.resp.tasks = cache[last'.user][1].v
                         /\ last'.io = {"cache"}
                         /\ tasks' = tasks

\* While the entry of O is live and is O's list in the store, the list a
\* GET /tasks of O gets is not replaced by a different one: reads before and
\* after a step that is no write return the same list.
EntryStable ==
    \A r \in Slots :
        (/\ reqs[r].pc = "ls_set" /\ reqs'[r].pc = "idle"
         /\ Live(reqs[r].user)
         /\ IsOwnersList(cache[reqs[r].user][1].v, reqs[r].user))
            => cache'[reqs[r].user][1].v = cache[reqs[r].user][1].v

\* C17: GET /tasks is read-through: a miss returns the owner's tasks in the
\* store, newest first, and puts that list under the owner; a hit (an empty
\* cached list included) returns the entry without reading the store; and
\* so, within the TTL and with no write of O in between, every GET /tasks of
\* O returns the same list.
C17_ReadThrough ==
    [][MissFetchesAndPuts /\ HitAnswersEntry /\ EntryStable]_vars

\* The read-through steps of C17 without its conclusion about repeated reads.
C17_MissAndHit == [][MissFetchesAndPuts /\ HitAnswersEntry]_vars

\* The conclusion of C17 alone.
C17_RepeatedReads == [][EntryStable]_vars

\* Slot q holds a DELETE of the same task by the same caller as slot r.
SameDelete(r, q) ==
    /\ q # r
    /\ reqs[q].kind = "delete" /\ reqs[q].id = reqs[r].id /\ reqs[q].user = reqs[r].user

\* C18: of the DELETE requests in flight for one task of their caller, the
\* first whose findOneAndDelete runs removes the task and is answered 200
\* "Task deleted"; no other has removed it before, every other finds nothing
\* and is answered 404, and the task is not in the store afterwards.
C18_OneDeleteWins ==
    [][\A r \in Slots :
          /\ (reqs[r].pc = "dl_exec" /\ reqs'[r].pc = "dl_del")
                => LET M == Match(tasks, reqs[r].id, reqs[r].user)
                   IN  IF M # {}
                       THEN /\ tasks' = tasks \ M
                            /\ reqs'[r].loc # <<>> /\ reqs'[r].err = ""
                            /\ \A q \in Slots :
                                  SameDelete(r, q) => ~(reqs[q].pc = "dl_del" /\ reqs[q].loc # <<>>)
                            /\ \A t \in tasks' : t.id # reqs[r].id
                       ELSE /\ tasks' = tasks
                            /\ reqs'[r].loc = <<>>
          /\ (reqs[r].pc = "dl_del" /\ reqs'[r].pc = "idle" /\ reqs[r].err = "")
                => /\ reqs[r].loc # <<>>
                      => /\ last'.resp = [NoResp EXCEPT !.status = 200,
                                                        !.message = "Task deleted"]
                         /\ \A t \in tasks' : t.id # reqs[r].id
                   /\ reqs[r].loc = <<>> => last'.resp = ErrorResp(404, "Task not found")]_vars

\* Two DELETEs of one task by its owner are in flight: one has removed the
\* task, the other has found nothing.
C18_Witness ==
    \E r, q \in Slots :
        /\ SameDelete(r, q)
        /\ reqs[r].kind = "delete" /\ reqs[r].pc = "dl_del" /\ reqs[r].loc # <<>>
        /\ reqs[q].pc = "dl_del" /\ reqs[q].loc = <<>> /\ reqs[q].err = ""
        /\ creator[reqs[r].id] = reqs[r].user

\* C19: the document that POST /tasks inserts, and the one it answers with,
\* is owned by the subject of the request's verified token, also when the
\* body names another userId or an _id.
C19_CreatedForTokenSubject ==
    [][\A r \in Slots :
          /\ (reqs[r].pc = "cr_save" /\ reqs'[r].pc = "cr_del")
                => /\ reqs[r].hdr.scheme = "Bearer" /\ reqs[r].hdr.token.sig = "good"
                   /\ \E t \in tasks' :
                        /\ t \notin tasks
                        /\ tasks' = tasks \cup {t}
                        /\ t.userId = reqs[r].hdr.token.id
                        /\ \A u \in tasks : u.id # t.id
          /\ (reqs[r].pc = "cr_del" /\ reqs'[r].pc = "idle")
                => last'.resp.task[1].userId = reqs[r].hdr.token.id]_vars

\* A POST /tasks whose body names another user as userId was answered 201
\* with a task owned by the caller.
C19_Witness ==
    /\ last.kind = "create" /\ last.resp.status = 201
    /\ last.body.userId # <<>> /\ last.body.userId[1] # last.hdr.token.id
    /\ last.resp.task[1].userId = last.hdr.token.id
    /\ last.resp.task[1] \in tasks

\* No request is in flight and the last response was sent at least d ms ago.
QuietFor(d) == AllFree /\ now - last.at >= d

\* A GET /tasks that arrives when nothing has been in flight for d ms is not
\* answered with a list other than the owner's tasks in the store, and a
\* GET /tasks of O that arrives right after O's successful write, nothing
\* else in flight, goes to the store.
FreshAfterQuiet(d) ==
    started' = started + 1
        => /\ (QuietFor(d) /\ ListHit) => IsOwnersList(last'.resp.tasks, last'.user)
           /\ (/\ AllFree /\ ListHit
               /\ last.kind \in WriteKinds /\ last.resp.status \in {200, 201})
                 => last'.user # last.user

\* C20 as claimed: once every request has completed and 600 s have elapsed
\* with no write, or the owner's later write was the last thing to complete,
\* GET /tasks returns the owner's current tasks.
C20_FreshFromTTLOn == [][FreshAfterQuiet(StdTTL * 1000)]_vars

\* C20 as amended: the same once more than 600 s have elapsed.
C20_FreshAfterTTL == [][FreshAfterQuiet(StdTTL * 1000 + 1)]_vars

\* A GET /tasks found an entry that was past its TTL and was not the owner's
\* list, fetched from the store and returned the owner's current tasks.
C20_Witness ==
    /\ last.kind = "list" /\ last.resp.status = 200 /\ "tasks" \in last.io
    /\ last.had # <<>> /\ Age(last.had[1]) > StdTTL * 1000
    /\ last.had[1].v # last.resp.tasks
    /\ IsOwnersList(last.resp.tasks, last.user)
====
